---- MODULE Spec2Model ----
(***************************************************************************)
(* duckchat: the command line chat client of src/src/duckchat/cli.py.      *)
(*                                                                         *)
(* Text the program inspects (prompts, streamed lines, answers) is a       *)
(* sequence of tokens.  A token is an atomic piece of text; the tokens     *)
(* are chosen so that every test the code makes (startswith, ==, in,       *)
(* split, replace, strip) is decided on token boundaries:                  *)
(*   " "       one blank            "\n"     a line feed                    *)
(*   "data: "  the stream marker    "[DONE]" the sentinel payload          *)
(*   "{m:" t "}"  the JSON object {"message": t}     "{}"  the object {}   *)
(*   "FENCE"   a triple backtick    "!" ":"  the prompt prefixes           *)
(*   any other token is a run of ordinary characters.                      *)
(* Opaque text (tokens of the backend, model identifiers) is a string.     *)
(***************************************************************************)
EXTENDS Integers, Sequences, FiniteSets, TLC

VARIABLES
    pc,          \* position of main(): "main", "setup", "loop", "posted", "answer", "done"
    rc,          \* exit status of the process once pc = "done"
    err,         \* the exception that ended the run, "none" otherwise
    args,        \* the parsed command line (argparse.Namespace)
    model,       \* chat.model
    messages,    \* chat.messages
    vqd,         \* chat.vqd
    prompt,      \* the prompt of the current loop iteration
    request,     \* the last chat request handed to session.post
    response,    \* status and x-vqd-4 header of the last HTTP response
    lines,       \* the body lines read by the last print_answer
    buffer,      \* print_answer's buffer
    new_buffer,  \* print_answer's new_buffer
    nstatus,     \* number of GET /status calls issued
    nreq,        \* number of POST /chat calls issued
    step         \* the operation that produced the current state

vars == <<pc, rc, err, args, model, messages, vqd, prompt, request, response,
          lines, buffer, new_buffer, nstatus, nreq, step>>

-----------------------------------------------------------------------------
(* Bounds of the model *)

MaxSends == 2    \* chat requests per run
MaxLines == 2    \* lines of one streamed body
MaxSetups == 2   \* calls of Chat.setup by a caller that calls it again

-----------------------------------------------------------------------------
(* Values *)

None == "None"

Marker == "data: "

Sentinel == <<Marker, "[DONE]">>

Fence == "FENCE"

\* models (cli.py 27-32): alias -> backend identifier
ModelAliases ==
    {<<"gpt-4o-mini">>, <<"claude-3-haiku">>, <<"llama">>, <<"mixtral">>}

models(alias) ==
    CASE alias = <<"gpt-4o-mini">>    -> "gpt-4o-mini"
      [] alias = <<"claude-3-haiku">> -> "claude-3-haiku-20240307"
      [] alias = <<"llama">>          -> "meta-llama/Meta-Llama-3.1-70B-Instruct-Turbo"
      [] alias = <<"mixtral">>        -> "mistralai/Mixtral-8x7B-Instruct-v0.1"

ModelIds == {models(a) : a \in ModelAliases}

UserTurn(content) == [content |-> content, role |-> "user"]

AssistantTurn(content) == [content |-> content, role |-> "assistant"]

-----------------------------------------------------------------------------
(* Text helpers: the str methods the program uses, over token sequences *)

Range(s) == {s[i] : i \in 1..Len(s)}

Min(S) == CHOOSE x \in S : \A y \in S : x <= y

Max(S) == CHOOSE x \in S : \A y \in S : x >= y

\* str.strip(): drop leading and trailing blanks; a marker left at the very end
\* loses its own trailing blank and is no longer the marker
Strip(s) ==
    LET keep == {i \in 1..Len(s) : s[i] # " "}
    IN  IF keep = {} THEN <<>>
        ELSE LET core == SubSeq(s, Min(keep), Max(keep))
             IN  IF core[Len(core)] = Marker
                 THEN SubSeq(core, 1, Len(core) - 1) \o <<"data:">>
                 ELSE core

\* str.startswith("data: ")
StartsWithMarker(s) == Len(s) > 0 /\ s[1] = Marker

\* str.replace("data: ", ""): every occurrence is removed, not only the prefix
ReplaceMarker(s) == SelectSeq(s, LAMBDA t : t # Marker)

\* re.split(" +", s): the pieces between runs of blanks
RECURSIVE ReSplit(_)
ReSplit(s) ==
    LET blanks == {i \in 1..Len(s) : s[i] = " "}
    IN  IF blanks = {} THEN <<s>>
        ELSE LET i    == Min(blanks)
                 rest == {j \in (i + 1)..Len(s) : s[j] # " "}
                 k    == IF rest = {} THEN Len(s) + 1 ELSE Min(rest)
             IN  <<SubSeq(s, 1, i - 1)>> \o ReSplit(SubSeq(s, k, Len(s)))

\* str.split("\n")
RECURSIVE SplitLines(_)
SplitLines(s) ==
    LET feeds == {i \in 1..Len(s) : s[i] = "\n"}
    IN  IF feeds = {} THEN <<s>>
        ELSE LET i == Min(feeds)
             IN  <<SubSeq(s, 1, i - 1)>> \o SplitLines(SubSeq(s, i + 1, Len(s)))

\* "```" in line
HasFence(line) == Fence \in Range(line)

-----------------------------------------------------------------------------
(* JSON of a data line *)

TextTokens == {"a", "b", "c", "x", Marker, "\n", Fence}

\* json.loads(payload): an object with a message, an object without one, or
\* a JSONDecodeError (ok = FALSE)
JsonLoads(payload) ==
    IF payload = <<"{}">>
    THEN [ok |-> TRUE, has |-> FALSE, message |-> <<>>]
    ELSE IF /\ Len(payload) >= 2
            /\ payload[1] = "{m:"
            /\ payload[Len(payload)] = "}"
            /\ \A i \in 2..(Len(payload) - 1) : payload[i] \in TextTokens
         THEN [ok |-> TRUE, has |-> TRUE,
               message |-> SubSeq(payload, 2, Len(payload) - 1)]
         ELSE [ok |-> FALSE, has |-> FALSE, message |-> <<>>]

\* data.get("message", "")
DataGet(data) == IF data.has THEN data.message ELSE <<>>

\* line.replace("data: ", "") handed to json.loads (cli.py 172)
LinePayload(line) == ReplaceMarker(line)

-----------------------------------------------------------------------------
(* Output.print_answer: the stream loop (cli.py 160-174) *)

\* what the loop does with one stripped line: "skip" it (blank), "stop"
\* (sentinel), raise ValueError ("bad"), or take it as a "chunk"
LineKindLenient(line) ==
    IF line = <<>> THEN "skip"
    ELSE IF line = Sentinel THEN "stop"
    ELSE IF ~StartsWithMarker(line) THEN "skip"
    ELSE "chunk"

LineKind(line) ==
    IF line = <<>> THEN "skip"
    ELSE IF line = Sentinel THEN "stop"
    ELSE IF ~StartsWithMarker(line) THEN "bad"
    ELSE "chunk"

\* the loop from line i on, with the locals buffer and msg; bound tells
\* whether msg has been assigned
RECURSIVE ReadLines(_, _, _, _, _)
ReadLines(ls, i, buf, bound, msg) ==
    IF i > Len(ls)
    THEN [err |-> "none", buffer |-> buf, bound |-> bound, msg |-> msg]
    ELSE LET line == Strip(ls[i])
             kind == LineKind(line)
         IN  CASE kind = "skip" -> ReadLines(ls, i + 1, buf, bound, msg)
               [] kind = "stop" ->
                    [err |-> "none", buffer |-> buf, bound |-> bound, msg |-> msg]
               [] kind = "bad" ->
                    [err |-> "ValueError", buffer |-> buf, bound |-> bound, msg |-> msg]
               [] kind = "chunk" ->
                    LET data == JsonLoads(LinePayload(line))
                    IN  IF ~data.ok
                        THEN [err |-> "JSONDecodeError", buffer |-> buf,
                              bound |-> bound, msg |-> msg]
                        ELSE ReadLines(ls, i + 1, buf \o DataGet(data), TRUE,
                                       DataGet(data))

ParseStream(ls) == ReadLines(ls, 1, <<>>, FALSE, <<>>)

\* the content of the assistant turn (cli.py 176)
AnswerContent(buf, msg) == msg

-----------------------------------------------------------------------------
(* Output.print_answer: the code block filter (cli.py 178-190) *)

RECURSIVE FilterLines(_, _, _, _, _)
FilterLines(ls, i, printing, print_file, out) ==
    IF i > Len(ls) THEN out
    ELSE LET line == ls[i]
         IN  IF HasFence(line) /\ ~printing /\ print_file
             THEN FilterLines(ls, i + 1, TRUE, print_file, out)
             ELSE IF HasFence(line) /\ printing /\ print_file
             THEN FilterLines(ls, i + 1, FALSE, print_file, out)
             ELSE IF printing \/ ~print_file
             THEN FilterLines(ls, i + 1, printing, print_file, Append(out, line))
             ELSE FilterLines(ls, i + 1, printing, print_file, out)

NewBufferAll(buf, print_file) == SplitLines(buf)

NewBuffer(buf, print_file) == FilterLines(SplitLines(buf), 1, FALSE, print_file, <<>>)

-----------------------------------------------------------------------------
(* Inputs: command lines, typed prompts, HTTP responses, streamed bodies *)

ArgModels == {<<"gpt-4o-mini">>, <<"nope">>}

\* --one-shot PROMPT; the empty text stands for the option not given (None)
\* and for an empty PROMPT: `if args.one_shot` does not tell them apart.
\* one_shot_given tells whether the option is on the command line.
OneShotInputs == {<<>>, <<"hi">>, <<"exit">>, <<"!", "ls">>, <<":", "newhist">>}

\* --file NAME; the empty text stands for the option not given
FileInputs == {<<>>, <<"f">>}

\* readfile(filename) (cli.py 389-402)
readfile(filename) == <<"body">>

ArgInputs ==
    [model : ArgModels, list_models : BOOLEAN, one_shot : OneShotInputs,
     one_shot_given : BOOLEAN, file : FileInputs, print_file : BOOLEAN]

\* what the user types at the console; read_prompt returns no empty prompt
PromptInputs ==
    { <<"hi">>, <<"exit">>, <<"!">>, <<"!", "ls">>,
      <<":", "newhist">>, <<":", "listmodels">>, <<":", "help">>, <<":", "frob">>,
      <<":", "setmodel">>, <<":", "setmodel", " ", " ", "mixtral">>,
      <<":", "setmodel", " ", "nope">>, <<":", "setmodel", " ">> }

\* the x-vqd-4 header of a response: absent (None), empty, or a token
StatusHeaders == {None, "", "t0"}

ChatHeaders == {None, "", "t1", "t2"}

StatusResponses == [ok : BOOLEAN, vqd : StatusHeaders]

ChatResponses == [ok : BOOLEAN, vqd : ChatHeaders]

NoResponse == [ok |-> FALSE, vqd |-> None]

NoRequest == [vqd |-> None, model |-> None, messages |-> <<>>]

\* the line data: {"message": text}
DataLine(text) == <<Marker, "{m:">> \o text \o <<"}">>

\* a text line, a fence line and a code line: one such chunk opens a code
\* block that is never closed, the fence of a second one closes it
FencedText == <<"x", "\n", Fence, "\n", "c", "\n">>

LineInputs ==
    { <<" ">>,                                   \* a blank line
      Sentinel,
      <<" ">> \o DataLine(<<"a">>) \o <<" ">>,   \* a chunk, padded with blanks
      DataLine(<<>>),                            \* an empty chunk
      <<Marker, "{}">>,                          \* a chunk with no message field
      DataLine(<<Marker, "b">>),                 \* a message holding the marker text
      DataLine(FencedText),
      <<"junk">> }                               \* a line without the marker

Streams == UNION {[1..n -> LineInputs] : n \in 0..MaxLines}

-----------------------------------------------------------------------------
(* Initial state: main() entered with a parsed command line *)

\* main() entered with the command line a
Start(a) ==
    /\ args = a
    /\ pc = "main"
    /\ rc = -1
    /\ err = "none"
    /\ (a.one_shot = <<>> => a.file = <<>>)
    /\ model = None
    /\ messages = <<>>
    /\ vqd = None
    /\ prompt = <<>>
    /\ request = NoRequest
    /\ response = NoResponse
    /\ lines = <<>>
    /\ buffer = <<>>
    /\ new_buffer = <<>>
    /\ nstatus = 0
    /\ nreq = 0
    /\ step = "start"

\* command lines whose --one-shot, when given, has a PROMPT that is not empty
Init ==
    \E a \in ArgInputs :
        /\ a.one_shot_given = (a.one_shot # <<>>)
        /\ Start(a)

-----------------------------------------------------------------------------
(* How an operation ends *)

\* the process ends with exit status r, e the exception that ended it
Ends(r, e) == pc' = "done" /\ rc' = r /\ err' = e

\* the loop iteration ends (cli.py 514-516, 520-522, 525-527)
NextIterationLoops == pc' = "loop" /\ UNCHANGED <<rc, err>>

NextIteration ==
    IF args.one_shot # <<>>
    THEN Ends(0, "none")
    ELSE pc' = "loop" /\ UNCHANGED <<rc, err>>

\* the locals of print_answer are gone once it has returned
ClearLocals == lines' = <<>> /\ buffer' = <<>> /\ new_buffer' = <<>>

-----------------------------------------------------------------------------
(* main(): before the loop (cli.py 476-498) *)

\* --list-models: print the table and return 0 (cli.py 481-483)
ListModels ==
    /\ pc = "main"
    /\ args.list_models
    /\ Ends(0, "none")
    /\ step' = "list_models"
    /\ UNCHANGED <<args, model, messages, vqd, prompt, request, response,
                   lines, buffer, new_buffer, nstatus, nreq>>

\* an alias that is not in the table: error and return 1 (cli.py 485-490)
RejectModelLate ==
    /\ pc = "main"
    /\ ~args.list_models
    /\ args.model \notin ModelAliases
    /\ Ends(1, "none")
    /\ nstatus' = nstatus + 1
    /\ step' = "reject_model"
    /\ UNCHANGED <<args, model, messages, vqd, prompt, request, response,
                   lines, buffer, new_buffer, nreq>>

RejectModel ==
    /\ pc = "main"
    /\ ~args.list_models
    /\ args.model \notin ModelAliases
    /\ Ends(1, "none")
    /\ step' = "reject_model"
    /\ UNCHANGED <<args, model, messages, vqd, prompt, request, response,
                   lines, buffer, new_buffer, nstatus, nreq>>

\* Chat.__init__ (cli.py 227-240), called at cli.py 492-495
NewChat ==
    /\ pc = "main"
    /\ ~args.list_models
    /\ args.model \in ModelAliases
    /\ model' = models(args.model)
    /\ messages' = <<>>
    /\ vqd' = None
    /\ pc' = "setup"
    /\ step' = "init"
    /\ UNCHANGED <<rc, err, args, prompt, request, response, lines, buffer,
                   new_buffer, nstatus, nreq>>

-----------------------------------------------------------------------------
(* Chat.setup (cli.py 242-264), called outside main's try block *)

\* response.headers.get("x-vqd-4") (cli.py 260)
StatusVqd(resp) == resp.vqd

\* `not self.vqd` (cli.py 262): None and the empty text are both refused
NoVqdNoneOnly(v) == v = None

NoVqd(v) == v = None \/ v = ""

Setup ==
    /\ pc = "setup"
    /\ \E resp \in StatusResponses :
         /\ response' = resp
         /\ IF ~resp.ok
            THEN \* raise_for_status (cli.py 258)
                 /\ Ends(1, "HTTPError")
                 /\ vqd' = vqd
            ELSE /\ vqd' = StatusVqd(resp)
                 /\ IF NoVqd(vqd')
                    THEN Ends(1, "RuntimeError")
                    ELSE pc' = "loop" /\ UNCHANGED <<rc, err>>
    /\ nstatus' = nstatus + 1
    /\ step' = "setup"
    /\ UNCHANGED <<args, model, messages, prompt, request, lines, buffer,
                   new_buffer, nreq>>

-----------------------------------------------------------------------------
(* main(): the loop (cli.py 500-527) *)

\* the prompts the next iteration can get (cli.py 502-507)
NextPrompts ==
    IF args.one_shot # <<>>
    THEN {args.one_shot \o (IF args.file # <<>>
                            THEN <<" ">> \o readfile(args.file)
                            ELSE <<>>)}
    ELSE PromptInputs

\* prompt == "exit", tested for console prompts only (cli.py 508-510)
IsExit(p) == args.one_shot = <<>> /\ p = <<"exit">>

\* prompt.startswith("!") (cli.py 512)
IsShell(p) == p[1] = "!"

\* prompt.startswith(":") (cli.py 518)
IsCmdNever(p) == FALSE

IsCmd(p) == p[1] = ":"

Exit ==
    /\ pc = "loop"
    /\ \E p \in NextPrompts :
         /\ IsExit(p)
         /\ prompt' = p
    /\ Ends(0, "none")
    /\ ClearLocals
    /\ step' = "exit"
    /\ UNCHANGED <<args, model, messages, vqd, request, response, nstatus, nreq>>

\* KeyboardInterrupt or EOFError inside the try block (cli.py 529-531)
Interrupt ==
    /\ pc \in {"loop", "posted", "answer"}
    /\ Ends(1, "KeyboardInterrupt")
    /\ ClearLocals
    /\ step' = "interrupt"
    /\ UNCHANGED <<args, model, messages, vqd, prompt, request, response,
                   nstatus, nreq>>

\* spawn_shell (cli.py 422-429): a subprocess, no state of the chat involved
SpawnShell ==
    /\ pc = "loop"
    /\ \E p \in NextPrompts :
         /\ ~IsExit(p)
         /\ IsShell(p)
         /\ prompt' = p
    /\ NextIteration
    /\ ClearLocals
    /\ step' = "spawn_shell"
    /\ UNCHANGED <<args, model, messages, vqd, request, response, nstatus, nreq>>

-----------------------------------------------------------------------------
(* run_cmd (cli.py 433-456) *)

\* words = re.split(" +", command_line[1:])
CmdWords(p) == ReSplit(Tail(p))

\* chat.messages after the command (cli.py 446-447)
CmdMessagesAny(command, msgs) ==
    IF command \in {<<"newhist">>, <<"listmodels">>} THEN <<>> ELSE msgs

CmdMessages(command, msgs) ==
    IF command = <<"newhist">> THEN <<>> ELSE msgs

\* whether the command assigns chat.model (cli.py 450-452)
SetsModel(command, cargs) == command = <<"setmodel">> /\ Len(cargs) > 0

\* chat.model after the command; models[args[0]] of an alias that is not in
\* the table is a KeyError, decided by the caller
CmdModelAny(command, cargs, m) ==
    IF command = <<"newhist">> THEN models(<<"gpt-4o-mini">>)
    ELSE IF SetsModel(command, cargs) THEN models(cargs[1]) ELSE m

CmdModelAlias(command, cargs, m) ==
    IF SetsModel(command, cargs) THEN cargs[1][1] ELSE m

CmdModel(command, cargs, m) ==
    IF SetsModel(command, cargs) THEN models(cargs[1]) ELSE m

RunCmd ==
    /\ pc = "loop"
    /\ \E p \in NextPrompts :
         /\ ~IsExit(p)
         /\ ~IsShell(p)
         /\ IsCmd(p)
         /\ prompt' = p
         /\ LET words   == CmdWords(p)
                command == words[1]
                cargs   == Tail(words)
            IN  IF SetsModel(command, cargs) /\ cargs[1] \notin ModelAliases
                THEN \* KeyError, which main does not catch
                     /\ Ends(1, "KeyError")
                     /\ UNCHANGED <<model, messages>>
                ELSE /\ messages' = CmdMessages(command, messages)
                     /\ model' = CmdModel(command, cargs, model)
                     /\ NextIteration
    /\ ClearLocals
    /\ step' = "run_cmd"
    /\ UNCHANGED <<args, vqd, request, response, nstatus, nreq>>

-----------------------------------------------------------------------------
(* Chat.prompt (cli.py 266-311) *)

\* list.append (cli.py 176, 282)
AppendTurn(msgs, turn) == Append(msgs, turn)

\* the request: the x-vqd-4 header and the JSON body (cli.py 285-296)
ChatRequestStale(v, m, msgs) ==
    [vqd |-> v, model |-> m, messages |-> SubSeq(msgs, 1, Len(msgs) - 1)]

ChatRequest(v, m, msgs) == [vqd |-> v, model |-> m, messages |-> msgs]

\* the user turn is appended, the request is built and posted (cli.py 282-302)
ChatPrompt ==
    /\ pc = "loop"
    /\ nreq < MaxSends
    /\ \E p \in NextPrompts :
         /\ ~IsExit(p)
         /\ ~IsShell(p)
         /\ ~IsCmd(p)
         /\ prompt' = p
         /\ messages' = AppendTurn(messages, UserTurn(p))
    /\ request' = ChatRequest(vqd, model, messages')
    /\ nreq' = nreq + 1
    /\ pc' = "posted"
    /\ ClearLocals
    /\ step' = "prompt"
    /\ UNCHANGED <<rc, err, args, model, vqd, response, nstatus>>

\* session.post raises (no connection): not an HTTPError, main does not catch it
PostError ==
    /\ pc = "posted"
    /\ Ends(1, "ConnectionError")
    /\ step' = "post_error"
    /\ UNCHANGED <<args, model, messages, vqd, prompt, request, response,
                   lines, buffer, new_buffer, nstatus, nreq>>

\* response.headers["x-vqd-4"] raises KeyError when the header is absent (cli.py 308)
HeaderMissingIgnored(resp) == FALSE

HeaderMissing(resp) == resp.vqd = None

\* response.raise_for_status() (cli.py 304): HTTPError on a non-2xx status
StatusErrorIgnored(resp) == FALSE

StatusError(resp) == ~resp.ok

\* self.vqd = new_vqd (cli.py 308-310)
RenewVqdKept(old, resp) == old

RenewVqd(old, resp) == resp.vqd

\* the response arrives (cli.py 304-311)
ChatResponse ==
    /\ pc = "posted"
    /\ \E resp \in ChatResponses :
         /\ response' = resp
         /\ IF StatusError(resp)
            THEN \* main catches HTTPError and returns 0 (cli.py 533-537)
                 /\ Ends(0, "HTTPError")
                 /\ vqd' = vqd
            ELSE IF HeaderMissing(resp)
            THEN /\ Ends(1, "KeyError")
                 /\ vqd' = vqd
            ELSE /\ vqd' = RenewVqd(vqd, resp)
                 /\ pc' = "answer"
                 /\ UNCHANGED <<rc, err>>
    /\ step' = "response"
    /\ UNCHANGED <<args, model, messages, prompt, request, lines, buffer,
                   new_buffer, nstatus, nreq>>

-----------------------------------------------------------------------------
(* Output.print_answer (cli.py 152-202).  The body is read and parsed, the  *)
(* assistant turn appended, the answer filtered and printed; rendering and *)
(* speech (cli.py 192-202) touch no state of the chat.                     *)

PrintAnswer ==
    /\ pc = "answer"
    /\ \E ls \in Streams :
         LET r == ParseStream(ls)
         IN  /\ lines' = ls
             /\ buffer' = r.buffer
             /\ IF r.err # "none"
                THEN \* ValueError of cli.py 170, or json.loads' JSONDecodeError
                     /\ Ends(1, r.err)
                     /\ UNCHANGED <<messages, new_buffer>>
                ELSE IF ~r.bound
                THEN \* cli.py 176 reads msg, which no iteration has assigned
                     /\ Ends(1, "UnboundLocalError")
                     /\ UNCHANGED <<messages, new_buffer>>
                ELSE /\ messages' = AppendTurn(messages,
                                      AssistantTurn(AnswerContent(r.buffer, r.msg)))
                     /\ new_buffer' = NewBuffer(r.buffer, args.print_file)
                     /\ IF new_buffer' = <<>>
                        THEN \* new_buffer[0] of an empty list (cli.py 199)
                             Ends(1, "IndexError")
                        ELSE NextIteration
    /\ step' = "print_answer"
    /\ UNCHANGED <<args, model, vqd, prompt, request, response, nstatus, nreq>>

-----------------------------------------------------------------------------

Next ==
    \/ ListModels
    \/ RejectModel
    \/ NewChat
    \/ Setup
    \/ Exit
    \/ Interrupt
    \/ SpawnShell
    \/ RunCmd
    \/ ChatPrompt
    \/ PostError
    \/ ChatResponse
    \/ PrintAnswer

Spec == Init /\ [][Next]_vars

-----------------------------------------------------------------------------
(* The Chat class under a caller that may call setup again between two     *)
(* sends: Chat.__init__, Chat.setup, Chat.prompt and Output.print_answer,  *)
(* console prompts only.                                                   *)

\* Chat.setup (cli.py 242-264) called on a chat that may hold turns; an
\* exception reaches the caller, which stops
ResetupClears ==
    /\ pc = "loop"
    /\ nstatus < MaxSetups
    /\ \E resp \in StatusResponses :
         /\ response' = resp
         /\ IF ~resp.ok
            THEN /\ Ends(1, "HTTPError")
                 /\ vqd' = vqd
            ELSE /\ vqd' = StatusVqd(resp)
                 /\ IF NoVqd(vqd')
                    THEN Ends(1, "RuntimeError")
                    ELSE pc' = "loop" /\ UNCHANGED <<rc, err>>
    /\ messages' = <<>>
    /\ nstatus' = nstatus + 1
    /\ ClearLocals
    /\ step' = "resetup"
    /\ UNCHANGED <<args, model, prompt, request, nreq>>

Resetup ==
    /\ pc = "loop"
    /\ nstatus < MaxSetups
    /\ \E resp \in StatusResponses :
         /\ response' = resp
         /\ IF ~resp.ok
            THEN /\ Ends(1, "HTTPError")
                 /\ vqd' = vqd
            ELSE /\ vqd' = StatusVqd(resp)
                 /\ IF NoVqd(vqd')
                    THEN Ends(1, "RuntimeError")
                    ELSE pc' = "loop" /\ UNCHANGED <<rc, err>>
    /\ nstatus' = nstatus + 1
    /\ ClearLocals
    /\ step' = "resetup"
    /\ UNCHANGED <<args, model, messages, prompt, request, nreq>>

InitApi ==
    /\ Init
    /\ ~args.list_models
    /\ args.model \in ModelAliases
    /\ args.one_shot = <<>>

NextApi ==
    \/ NewChat
    \/ Setup
    \/ Resetup
    \/ ChatPrompt
    \/ PostError
    \/ ChatResponse
    \/ PrintAnswer

SpecApi == InitApi /\ [][NextApi]_vars

-----------------------------------------------------------------------------
(* Runs started with --one-shot, the PROMPT possibly empty *)

InitOneShot ==
    \E a \in ArgInputs :
        /\ a.one_shot_given
        /\ Start(a)

SpecOneShot == InitOneShot /\ [][Next]_vars

-----------------------------------------------------------------------------
(* Properties *)

IsPrefix(s, t) == Len(s) <= Len(t) /\ SubSeq(t, 1, Len(s)) = s

Last(s) == s[Len(s)]

\* the lines as the stream loop sees them (decoded and stripped)
Stripped(ls) == [i \in 1..Len(ls) |-> Strip(ls[i])]

\* the index of the first sentinel line, Len + 1 when there is none
SentinelAt(ls) ==
    LET S == {i \in 1..Len(ls) : Stripped(ls)[i] = Sentinel}
    IN  IF S = {} THEN Len(ls) + 1 ELSE Min(S)

\* a non-blank line that is not the sentinel and does not start with the
\* marker occurs before the sentinel
Malformed(ls) ==
    \E i \in 1..(SentinelAt(ls) - 1) :
        Stripped(ls)[i] # <<>> /\ ~StartsWithMarker(Stripped(ls)[i])

\* every line before the sentinel is blank or the marker followed by a JSON object
WellFormed(ls) ==
    \A i \in 1..(SentinelAt(ls) - 1) :
        \/ Stripped(ls)[i] = <<>>
        \/ /\ StartsWithMarker(Stripped(ls)[i])
           /\ JsonLoads(Tail(Stripped(ls)[i])).ok

\* the message field of a data line: the marker prefix removed, the rest
\* read as JSON, an absent field taken as the empty text
ChunkMessage(line) ==
    IF line = <<>> THEN <<>> ELSE DataGet(JsonLoads(Tail(line)))

\* the concatenation, in arrival order, of the message fields of the data
\* lines before the sentinel
RECURSIVE Concat(_, _, _)
Concat(ls, i, n) ==
    IF i > n THEN <<>> ELSE ChunkMessage(Stripped(ls)[i]) \o Concat(ls, i + 1, n)

AnswerText(ls) == Concat(ls, 1, SentinelAt(ls) - 1)

\* the command word of a meta-command prompt
Command(p) == CmdWords(p)[1]

\* print_answer has just appended a turn to the conversation of the request
Answered == step = "print_answer" /\ Len(messages) > Len(request.messages)

\* C1: every chat request carries the x-vqd-4 value of the latest response:
\* the status response for the first request, the previous chat response
\* for every later one.
Thm_C1 == pc = "posted" => request.vqd = response.vqd

\* a second request carries the renewed token, not the one of the status call
Wit_C1 == pc = "posted" /\ nreq = 2 /\ request.vqd = "t2"

\* C2: a send with a 2xx response, a renewal token and a well-formed stream
\* grows the conversation by the user turn of the prompt and one assistant turn.
CE_C2 ==
    (step = "print_answer" /\ WellFormed(lines)) =>
        /\ Len(messages) = Len(request.messages) + 1
        /\ IsPrefix(request.messages, messages)
        /\ Last(request.messages) = UserTurn(prompt)
        /\ Last(messages).role = "assistant"

\* C3: the assistant turn appended by a send holds the assembled answer, the
\* text the stream loop has concatenated from all chunks before the sentinel.
CE_C3 == Answered => Last(messages) = AssistantTurn(buffer)

\* C4: a line without the marker before the sentinel ends the send with the
\* ValueError of the stream loop, and the conversation keeps the user turn
\* of the prompt as its last turn: no assistant turn is appended.
Thm_C4 ==
    (step = "print_answer" /\ Malformed(lines)) =>
        /\ pc = "done"
        /\ err \in {"ValueError", "JSONDecodeError"}
        /\ messages = request.messages
        /\ Last(messages) = UserTurn(prompt)

\* a chunk had been read into the buffer when the malformed line arrived
Wit_C4 ==
    /\ step = "print_answer"
    /\ Malformed(lines)
    /\ buffer # <<>>
    /\ err = "ValueError"
    /\ Len(messages) = 3

\* C5: the stream loop ends without a parse error on every well-formed stream,
\* whatever follows the sentinel, and its buffer is the concatenation of the
\* message fields of the data lines before the sentinel.
CE_C5 ==
    (step = "print_answer" /\ WellFormed(lines)) =>
        /\ err \notin {"ValueError", "JSONDecodeError"}
        /\ buffer = AnswerText(lines)

\* C6: a 2xx chat response without the x-vqd-4 header ends the send with an
\* error, the token is the one the request carried, and the conversation
\* ends with the user turn.
Thm_C6 ==
    (step = "response" /\ response.ok /\ response.vqd = None) =>
        /\ pc = "done"
        /\ err = "KeyError"
        /\ vqd = request.vqd
        /\ vqd # None
        /\ messages = request.messages
        /\ Last(messages) = UserTurn(prompt)

Wit_C6 ==
    /\ step = "response"
    /\ response.ok
    /\ response.vqd = None
    /\ vqd = "t1"
    /\ Len(messages) = 3

\* C7 as stated: a send aborted by a malformed stream leaves the token equal
\* to its value before that send (the value the request carried).
CE_C7 == (step = "print_answer" /\ err = "ValueError") => vqd = request.vqd

\* C7 as amended: the user turn is appended and the request built and posted
\* with the old token; the token is replaced from the response headers before
\* the stream is parsed; the assistant turn is appended last.  A send aborted
\* by a malformed stream leaves the token equal to the renewal of its response.
Thm_C7 ==
    /\ pc = "posted" =>
          /\ messages = request.messages
          /\ Last(messages) = UserTurn(prompt)
          /\ vqd = request.vqd
    /\ pc = "answer" =>
          /\ vqd = response.vqd
          /\ messages = request.messages
    /\ step = "print_answer" =>
          /\ vqd = response.vqd
          /\ IsPrefix(request.messages, messages)
          /\ (err = "ValueError" => messages = request.messages)

Wit_C7 == step = "print_answer" /\ err = "ValueError" /\ vqd # request.vqd

\* C8: the body of a chat request is the conversation as it stood before the
\* send followed by the user turn of the prompt, in that order, with the
\* model the chat holds.
Thm_C8 ==
    [][(pc = "loop" /\ pc' = "posted") =>
          /\ request'.messages = Append(messages, UserTurn(prompt'))
          /\ request'.messages = messages'
          /\ request'.model = model]_vars

\* a request that replays an earlier exchange before the new user turn
Wit_C8 ==
    /\ pc = "posted"
    /\ Len(request.messages) = 3
    /\ request.messages[2].role = "assistant"

\* C9 as stated: every chat request sends the model the chat was constructed with.
CE_C9 == pc = "posted" => request.model = models(args.model)

\* C9 as amended: the model is set at construction and changes only when a
\* :setmodel command with an alias is run; every chat request sends the model
\* the chat holds at that moment.
Thm_C9 ==
    [][/\ (model' # model) =>
             \/ (pc = "main" /\ model' = models(args.model))
             \/ /\ step' = "run_cmd"
                /\ Command(prompt') = <<"setmodel">>
                /\ Len(CmdWords(prompt')) > 1
       /\ (pc = "loop" /\ pc' = "posted") => request'.model = model]_vars

Wit_C9 == pc = "posted" /\ request.model # models(args.model)

\* C10: every step leaves the previous conversation a prefix of the next one,
\* except the :newhist command, which empties it.
Thm_C10 ==
    [][\/ IsPrefix(messages, messages')
       \/ /\ step' = "run_cmd"
          /\ Command(prompt') = <<"newhist">>
          /\ messages' = <<>>]_vars

\* :newhist has emptied the conversation after an exchange
Wit_C10 ==
    /\ step = "run_cmd"
    /\ Command(prompt) = <<"newhist">>
    /\ nreq > 0
    /\ messages = <<>>

\* C11: a non-2xx chat response ends the send with HTTPError; the run ends
\* without another chat request, the token is the one the request carried,
\* no body line has been read, and the conversation ends with the user turn
\* of the prompt.
Thm_C11 ==
    [][/\ (step' = "response" /\ ~response'.ok) =>
             /\ pc' = "done"
             /\ err' = "HTTPError"
             /\ vqd' = request'.vqd
             /\ lines' = <<>> /\ buffer' = <<>>
             /\ messages' = request'.messages
             /\ Last(messages') = UserTurn(prompt')
       /\ (step = "response" /\ ~response.ok) => nreq' = nreq]_vars

\* the failed response carried a renewal header, which is not taken
Wit_C11 ==
    /\ step = "response"
    /\ ~response.ok
    /\ response.vqd = "t2"
    /\ vqd = "t1"
    /\ nreq = 2

CE_C13 == \A i \in 1..Len(messages) : messages[i].content # <<>>

\* C14 as stated: a run started with an alias that is not in the table issues
\* no status and no chat request and ends with exit code 1.
CE_C14 ==
    (args.model \notin ModelAliases /\ pc = "done") =>
        (rc = 1 /\ nstatus = 0 /\ nreq = 0)

\* C14 as amended: such a run issues no status and no chat request and
\* constructs no Chat; it ends with exit code 1, unless --list-models is
\* given, which is looked at first and ends the run with exit code 0.
Thm_C14 ==
    (args.model \notin ModelAliases) =>
        /\ nstatus = 0
        /\ nreq = 0
        /\ model = None
        /\ pc \in {"main", "done"}
        /\ (pc = "done") => (rc = IF args.list_models THEN 0 ELSE 1)

Wit_C14 ==
    /\ args.model \notin ModelAliases
    /\ ~args.list_models
    /\ step = "reject_model"
    /\ pc = "done"
    /\ rc = 1

\* C15: a call of setup, the first or a later one on a chat that holds turns,
\* leaves the conversation as it is and, when it succeeds, stores the token
\* of the status response; the next chat request carries that token and
\* replays all turns followed by the new user turn.
Thm_C15 ==
    [][/\ (step' \in {"setup", "resetup"}) =>
             /\ messages' = messages
             /\ (pc' = "loop") =>
                    /\ response'.ok
                    /\ vqd' = response'.vqd
                    /\ vqd' \notin {None, ""}
       /\ (step = "resetup" /\ pc = "loop" /\ pc' = "posted") =>
             /\ request'.vqd = response.vqd
             /\ request'.messages = Append(messages, UserTurn(prompt'))]_vars

\* a request after a second setup: old turns under the token of the status call
Wit_C15 ==
    /\ pc = "posted"
    /\ nstatus = 2
    /\ nreq = 2
    /\ request.vqd = "t0"
    /\ Len(request.messages) = 3
    /\ response.vqd = "t0"

\* the loop body runs at most once, on the prompt of the command line: no
\* second prompt is read, at most one chat request is issued, and none for
\* a shell line or a meta-command
OneIteration ==
    /\ nreq <= 1
    /\ (pc = "loop") => (step = "setup" /\ prompt = <<>>)
    /\ (prompt # <<>>) =>
          /\ prompt = args.one_shot \o (IF args.file # <<>>
                                        THEN <<" ">> \o <<"body">> ELSE <<>>)
          /\ (prompt[1] \in {"!", ":"}) => (nreq = 0 /\ pc = "done" /\ rc = 0)

FenceLines(ls) == {i \in 1..Len(ls) : HasFence(ls[i])}

FencesBefore(ls, i) == Cardinality({j \in FenceLines(ls) : j < i})

\* the lines strictly between an opening fence line and the fence line that
\* follows it
Between(ls) ==
    {i \in 1..Len(ls) \ FenceLines(ls) :
        \E o, c \in FenceLines(ls) :
            /\ FencesBefore(ls, o) % 2 = 0
            /\ FencesBefore(ls, c) = FencesBefore(ls, o) + 1
            /\ o < i /\ i < c}

\* the lines after an opening fence line and before the next fence line, if
\* there is one
Inside(ls) ==
    {i \in 1..Len(ls) \ FenceLines(ls) : FencesBefore(ls, i) % 2 = 1}

\* the lines of ls whose index is in S, in order
RECURSIVE PickFrom(_, _, _)
PickFrom(ls, S, i) ==
    IF i > Len(ls) THEN <<>>
    ELSE (IF i \in S THEN <<ls[i]>> ELSE <<>>) \o PickFrom(ls, S, i + 1)

Pick(ls, S) == PickFrom(ls, S, 1)

\* C17 as stated: with the mode on, the lines kept are those strictly between
\* an opening and the following closing fence line; with the mode off, all
\* lines; the committed content does not depend on the mode.
CE_C17 ==
    Answered =>
        /\ new_buffer = IF args.print_file
                        THEN Pick(SplitLines(buffer), Between(SplitLines(buffer)))
                        ELSE SplitLines(buffer)
        /\ Last(messages).content = ParseStream(lines).msg

\* C17 as amended: with the mode on, the lines kept are those after an
\* opening fence line up to the next fence line or, when the block is never
\* closed, up to the end of the answer.
Thm_C17 ==
    Answered =>
        /\ new_buffer = IF args.print_file
                        THEN Pick(SplitLines(buffer), Inside(SplitLines(buffer)))
                        ELSE SplitLines(buffer)
        /\ Last(messages).content = ParseStream(lines).msg

\* a closed block: the code line and the text line before the second fence
Wit_C17 ==
    /\ Answered
    /\ args.print_file
    /\ Cardinality(FenceLines(SplitLines(buffer))) = 2
    /\ new_buffer = <<<<"c">>, <<"x">>>>

\* an iteration of the loop has read prompt'
ReadsPrompt ==
    pc = "loop" /\ step' \in {"exit", "spawn_shell", "run_cmd", "prompt"}

\* what a prompt that is not a chat prompt must leave alone: no request, no
\* appended turn, the token kept; the conversation changed by :newhist only,
\* the model by :setmodel with an argument only
NoChatEffect ==
    /\ pc' # "posted"
    /\ nreq' = nreq
    /\ request' = request
    /\ vqd' = vqd
    /\ Len(messages') <= Len(messages)
    /\ \/ messages' = messages
       \/ /\ prompt'[1] = ":"
          /\ Command(prompt') = <<"newhist">>
          /\ messages' = <<>>
    /\ \/ model' = model
       \/ /\ prompt'[1] = ":"
          /\ Command(prompt') = <<"setmodel">>
          /\ Len(CmdWords(prompt')) > 1

\* C18 as stated: a prompt starting with ! or :, and the prompt exit, has no
\* chat effect, wherever the prompt comes from.
CE_C18 ==
    [][(ReadsPrompt /\ (prompt'[1] \in {"!", ":"} \/ prompt' = <<"exit">>))
          => NoChatEffect]_vars

\* C18 as amended: a prompt starting with ! or :, and the prompt exit read
\* from the console, issues no chat request, appends no turn and keeps the
\* token; only :newhist changes the conversation and only :setmodel with an
\* argument changes the model.
Thm_C18 ==
    [][(ReadsPrompt /\ \/ prompt'[1] \in {"!", ":"}
                       \/ (args.one_shot = <<>> /\ prompt' = <<"exit">>))
          => NoChatEffect]_vars

\* :newhist has emptied a conversation that held an answered request
Wit_C18 ==
    /\ step = "run_cmd"
    /\ Command(prompt) = <<"newhist">>
    /\ nreq = 1
    /\ messages = <<>>
    /\ request.messages # <<>>
    /\ vqd = response.vqd

\* C19: every chat request carries a token that is neither absent nor empty,
\* whatever the x-vqd-4 headers of earlier status and chat responses were.
CE_C19 == pc = "posted" => (request.vqd # None /\ request.vqd # "")

\* C20: the model a chat holds, and the model of every chat request, is an
\* identifier of the alias table; a :setmodel with an alias that is not in
\* the table fails and leaves the model as it was.
Thm_C20 ==
    [][/\ (model' # None) => model' \in ModelIds
       /\ (pc' = "posted") => request'.model \in ModelIds
       /\ (/\ pc = "loop"
           /\ step' = "run_cmd"
           /\ Command(prompt') = <<"setmodel">>
           /\ Len(CmdWords(prompt')) > 1
           /\ CmdWords(prompt')[2] \notin ModelAliases)
             => (err' = "KeyError" /\ pc' = "done" /\ model' = model)]_vars

\* an unknown alias refused after a known one had replaced the model
Wit_C20 ==
    /\ step = "run_cmd"
    /\ err = "KeyError"
    /\ model = models(<<"mixtral">>)
    /\ model # models(args.model)

====
